---- MODULE Spec2Model ----
(***************************************************************************)
(* Path resolution and path materialisation of filen/cloud.go over a       *)
(* remote drive that exposes only flat parent/child listings.              *)
(*                                                                         *)
(* The remote drive is the pair of sequences folders/uploads (one entry    *)
(* per remote item, in the order the listing endpoint returns them).  A    *)
(* call of FindItem, FindItemUUID or FindDirectoryOrCreate is a record in  *)
(* call[p]; it advances by one remote request per step.                    *)
(***************************************************************************)
EXTENDS Integers, Sequences, FiniteSets, TLC

VARIABLES folders, uploads, undecryptable, faults, call

vars == <<folders, uploads, undecryptable, faults, call>>

-----------------------------------------------------------------------------
(* Bounds *)

MaxLen == 3          \* longest path, in segments (strings.Split never yields none)
MaxFolders == 2      \* folders on the drive before the first call
MaxUploads == 1      \* files on the drive before the first call
MaxBad == 1          \* entries whose metadata no master key decrypts
MaxFaults == 1       \* remote requests that may fail in one behaviour
MaxConcLen == 2      \* longest path of the concurrent callers
MaxConcFolders == 1  \* folders on the drive before the concurrent callers start

Names == {"a", "b"}
Segments == Names \cup {""}
Procs == {1, 2}

Paths(n) == UNION {[1..k -> Segments] : k \in 1..n}

-----------------------------------------------------------------------------
(* The remote session and the values the calls return *)

\* GetUserBaseFolder().UUID: the distinguished UUID of the root directory.
RootUUID == 0

\* The empty string FindItemUUID returns for "not found".
NoUUID == -1

Pending == [kind |-> "pending", uuid |-> NoUUID, err |-> "nil"]
Err(e) == [kind |-> "err", uuid |-> NoUUID, err |-> e]
RetFile(f) == [kind |-> "file", uuid |-> f.uuid, err |-> "nil"]
RetDirectory(d) == [kind |-> "dir", uuid |-> d.uuid, err |-> "nil"]
RetNotFound == [kind |-> "notfound", uuid |-> NoUUID, err |-> "nil"]
RetUUID(u) == [kind |-> "uuid", uuid |-> u, err |-> "nil"]

IsEmptyPathLiteral(path) == path = <<"">>

\* len(strings.Join(segments, "")) == 0
IsEmptyPath(path) == \A i \in 1..Len(path) : path[i] = ""

\* The `if segment == "" { continue }` of both loops: the index of the first
\* non-empty segment at or after from, 0 when the range is exhausted.
NextSegment(path, from) ==
    LET rest == {i \in from..Len(path) : path[i] # ""}
    IN IF rest = {} THEN 0 ELSE CHOOSE i \in rest : \A j \in rest : i <= j

ScansFilesAlways(requireDirectory) == TRUE

\* if !requireDirectory { ...scan the files... }
ScansFiles(requireDirectory) == ~requireDirectory

\* segmentIdx == len(segments)-1 (Go indexes from 0, the model from 1)
IsLastSegment(path, idx) == idx = Len(path)

FirstMatchInverted(items, segment) ==
    LET hits == {i \in 1..Len(items) : items[i].name # segment}
    IN IF hits = {} THEN 0 ELSE CHOOSE i \in hits : \A j \in hits : i <= j

\* The scan `for _, x := range xs { if x.Name == segment {...} }`: the index of
\* the first entry of that name, 0 when there is none.
FirstMatch(items, segment) ==
    LET hits == {i \in 1..Len(items) : items[i].name = segment}
    IN IF hits = {} THEN 0 ELSE CHOOSE i \in hits : \A j \in hits : i <= j

\* client.GetDirectoryContent(uuid): the children of uuid, in listing order.
GetDirectoryContent(uuid) ==
    [Uploads |-> SelectSeq(uploads, LAMBDA u : u.parent = uuid),
     Folders |-> SelectSeq(folders, LAMBDA d : d.parent = uuid)]

\* crypto.DecryptMetadataAllKeys followed by json.Unmarshal succeeds on entry e.
Decrypts(e) == e.uuid \notin undecryptable

AllDecrypt(items) == \A i \in 1..Len(items) : Decrypts(items[i])

ReadDirectorySkipping(uuid, fail) ==
    LET content == GetDirectoryContent(uuid)
    IN IF fail
       THEN [err |-> "transport", files |-> <<>>, directories |-> <<>>]
       ELSE [err |-> "nil",
             files |-> SelectSeq(content.Uploads, Decrypts),
             directories |-> SelectSeq(content.Folders, Decrypts)]

\* ReadDirectory: the request may fail (fail); any entry that does not decrypt
\* fails the whole call.
ReadDirectory(uuid, fail) ==
    LET content == GetDirectoryContent(uuid)
    IN IF fail
       THEN [err |-> "transport", files |-> <<>>, directories |-> <<>>]
       ELSE IF ~AllDecrypt(content.Uploads) \/ ~AllDecrypt(content.Folders)
       THEN [err |-> "decrypt", files |-> <<>>, directories |-> <<>>]
       ELSE [err |-> "nil", files |-> content.Uploads, directories |-> content.Folders]

\* uuid.New(): an identifier no remote item carries yet.
NewUUID ==
    LET used == {RootUUID} \cup {folders[i].uuid : i \in 1..Len(folders)}
                           \cup {uploads[i].uuid : i \in 1..Len(uploads)}
    IN 1 + CHOOSE m \in used : \A u \in used : u <= m

\* The Directory CreateDirectory sends and returns.
NewDirectoryUnderRoot(parentUUID, name) ==
    [uuid |-> NewUUID, name |-> name, parent |-> RootUUID]

NewDirectory(parentUUID, name) ==
    [uuid |-> NewUUID, name |-> name, parent |-> parentUUID]

\* A remote request may fail while the behaviour has failures left.
MayFail == IF faults > 0 THEN BOOLEAN ELSE {FALSE}

Spend(fail) == IF fail THEN faults - 1 ELSE faults

-----------------------------------------------------------------------------
(* Calls *)

Idle == [op |-> "none", path |-> <<"">>, requireDirectory |-> FALSE, pc |-> "idle",
         segmentIdx |-> 0, currentUUID |-> NoUUID, directories |-> <<>>,
         ret |-> Pending, nList |-> 0, created |-> <<>>]

DescendKeepingCurrent(c, uuid) == [c EXCEPT !.segmentIdx = @ + 1]

\* currentUUID = directory.UUID, then on to the next segment.
Descend(c, uuid) == [c EXCEPT !.currentUUID = uuid, !.segmentIdx = @ + 1]

Return(c, r) == [c EXCEPT !.pc = "done", !.ret = r, !.directories = <<>>]

\* FindItemUUID's reading of what FindItem returned.
ToUUID(r) ==
    IF r.kind = "err" THEN r
    ELSE IF r.kind = "file" THEN RetUUID(r.uuid)
    ELSE IF r.kind = "dir" THEN RetUUID(r.uuid)
    ELSE RetUUID(NoUUID)

Deliver(op, r) == IF op = "FindItemUUID" THEN ToUUID(r) ELSE r

\* A caller invokes op on path.
Invoke(p, op, path, requireDirectory) ==
    /\ call[p].pc = "idle"
    /\ call' = [call EXCEPT ![p] = [Idle EXCEPT !.op = op, !.path = path,
                                      !.requireDirectory = requireDirectory,
                                      !.pc = "start"]]
    /\ UNCHANGED <<folders, uploads, undecryptable, faults>>

\* FindItemUUID on a path without segments: the root, straight from
\* GetBaseFolderUUID.
FindItemUUID_Root(p) ==
    /\ call[p].pc = "start"
    /\ call[p].op = "FindItemUUID"
    /\ IsEmptyPath(call[p].path)
    /\ \E fail \in MayFail :
          /\ faults' = Spend(fail)
          /\ call' = [call EXCEPT ![p] =
                 Return(@, IF fail THEN Err("transport") ELSE RetUUID(RootUUID))]
    /\ UNCHANGED <<folders, uploads, undecryptable>>

\* FindItem up to its loop (also when FindItemUUID delegates to it).
FindItem_Begin(p) ==
    /\ call[p].pc = "start"
    /\ \/ call[p].op = "FindItem"
       \/ call[p].op = "FindItemUUID" /\ ~IsEmptyPath(call[p].path)
    /\ \E fail \in MayFail :
          /\ faults' = Spend(fail)
          /\ call' = [call EXCEPT ![p] =
                 IF fail THEN Return(@, Deliver(@.op, Err("transport")))
                 ELSE IF IsEmptyPath(@.path)
                 THEN Return(@, Deliver(@.op, Err("no segments")))
                 ELSE [@ EXCEPT !.pc = "resolve", !.currentUUID = RootUUID,
                                !.segmentIdx = 1]]
    /\ UNCHANGED <<folders, uploads, undecryptable>>

\* One iteration of FindItem's loop that lists a directory (the iterations
\* over empty segments before it included), or the fall out of the loop.
FindItem_Segment(p) ==
    /\ call[p].pc = "resolve"
    /\ LET c == call[p]
           idx == NextSegment(c.path, c.segmentIdx)
       IN IF idx = 0
          THEN /\ call' = [call EXCEPT ![p] = Return(c, Deliver(c.op, Err("unreachable")))]
               /\ UNCHANGED faults
          ELSE \E fail \in MayFail :
                 LET r == ReadDirectory(c.currentUUID, fail)
                     segment == c.path[idx]
                     at == [c EXCEPT !.segmentIdx = idx, !.nList = @ + 1]
                     f == FirstMatch(r.files, segment)
                     d == FirstMatch(r.directories, segment)
                 IN /\ faults' = Spend(fail)
                    /\ call' = [call EXCEPT ![p] =
                          IF r.err # "nil" THEN Return(at, Deliver(c.op, Err(r.err)))
                          ELSE IF ScansFiles(c.requireDirectory) /\ f # 0
                          THEN Return(at, Deliver(c.op, RetFile(r.files[f])))
                          ELSE IF d # 0
                          THEN IF IsLastSegment(c.path, idx)
                               THEN Return(at, Deliver(c.op, RetDirectory(r.directories[d])))
                               ELSE Descend(at, r.directories[d].uuid)
                          ELSE Return(at, Deliver(c.op, RetNotFound))]
    /\ UNCHANGED <<folders, uploads, undecryptable>>

\* FindDirectoryOrCreate up to its loop.
FindDirectoryOrCreate_Begin(p) ==
    /\ call[p].pc = "start"
    /\ call[p].op = "FindDirectoryOrCreate"
    /\ \E fail \in MayFail :
          /\ faults' = Spend(fail)
          /\ call' = [call EXCEPT ![p] =
                 IF fail THEN Return(@, Err("transport"))
                 ELSE IF IsEmptyPath(@.path) THEN Return(@, RetUUID(RootUUID))
                 ELSE [@ EXCEPT !.pc = "walk", !.currentUUID = RootUUID,
                                !.segmentIdx = 1]]
    /\ UNCHANGED <<folders, uploads, undecryptable>>

\* One iteration of FindDirectoryOrCreate's loop up to the decision to create,
\* or the return after the last segment.
FindDirectoryOrCreate_Segment(p) ==
    /\ call[p].pc = "walk"
    /\ LET c == call[p]
           idx == NextSegment(c.path, c.segmentIdx)
       IN IF idx = 0
          THEN /\ call' = [call EXCEPT ![p] = Return(c, RetUUID(c.currentUUID))]
               /\ UNCHANGED faults
          ELSE \E fail \in MayFail :
                 LET r == ReadDirectory(c.currentUUID, fail)
                     at == [c EXCEPT !.segmentIdx = idx, !.nList = @ + 1]
                     d == FirstMatch(r.directories, c.path[idx])
                 IN /\ faults' = Spend(fail)
                    /\ call' = [call EXCEPT ![p] =
                          IF r.err # "nil" THEN Return(at, Err(r.err))
                          ELSE IF d # 0
                          THEN Descend(at, r.directories[d].uuid)
                          ELSE [at EXCEPT !.pc = "create",
                                          !.directories = r.directories]]
    /\ UNCHANGED <<folders, uploads, undecryptable>>

\* The CreateDirectory call of the iteration and what follows it.
FindDirectoryOrCreate_Create(p) ==
    /\ call[p].pc = "create"
    /\ LET c == call[p]
           directory == NewDirectory(c.currentUUID, c.path[c.segmentIdx])
       IN \E fail \in MayFail :
             /\ faults' = Spend(fail)
             /\ folders' = IF fail THEN folders ELSE Append(folders, directory)
             /\ call' = [call EXCEPT ![p] =
                    IF fail THEN Return(c, Err("transport"))
                    ELSE Descend([c EXCEPT !.pc = "walk", !.directories = <<>>,
                                             !.created = Append(@, directory)],
                                 directory.uuid)]
    /\ UNCHANGED <<uploads, undecryptable>>

-----------------------------------------------------------------------------
(* Drives and callers *)

FolderLists(n) ==
    UNION {{[i \in 1..k |-> [uuid |-> i, name |-> nm[i], parent |-> pr[i]]] :
              nm \in [1..k -> Names],
              pr \in {g \in [1..k -> 0..n] : \A i \in 1..k : g[i] < i}} : k \in 0..n}

UploadLists(n, nf) ==
    UNION {{[i \in 1..k |-> [uuid |-> nf + i, name |-> nm[i], parent |-> pr[i]]] :
              nm \in [1..k -> Names], pr \in [1..k -> 0..nf]} : k \in 0..n}

Init ==
    /\ folders \in FolderLists(MaxFolders)
    /\ uploads \in UploadLists(MaxUploads, Len(folders))
    /\ undecryptable \in {s \in SUBSET (1..(Len(folders) + Len(uploads))) :
                             Cardinality(s) <= MaxBad}
    /\ faults = MaxFaults
    /\ call = [p \in Procs |-> Idle]

Ops == {"FindItem", "FindItemUUID", "FindDirectoryOrCreate"}

\* path spelled without leading, trailing or duplicate slashes.
Canonical(path) ==
    LET segs == SelectSeq(path, LAMBDA s : s # "")
    IN IF segs = <<>> THEN <<"">> ELSE segs

\* What a caller passes when it calls again: FindDirectoryOrCreate is retried
\* on the same path, a resolution is repeated on the path without its
\* redundant slashes.
Again(op, path) ==
    IF op = "FindDirectoryOrCreate" THEN path ELSE Canonical(path)

\* One caller: a call, and when it has returned the same operation again (a
\* resolution only when the second spelling differs from the first).
InvokeFirst ==
    \E op \in Ops, path \in Paths(MaxLen), requireDirectory \in BOOLEAN :
        /\ op = "FindDirectoryOrCreate" => ~requireDirectory
        /\ Invoke(1, op, path, requireDirectory)

InvokeAgain ==
    /\ call[1].pc = "done"
    /\ call[1].op # "FindDirectoryOrCreate" => Canonical(call[1].path) # call[1].path
    /\ Invoke(2, call[1].op, Again(call[1].op, call[1].path), call[1].requireDirectory)

Next ==
    \/ InvokeFirst
    \/ InvokeAgain
    \/ \E p \in Procs : FindItemUUID_Root(p)
    \/ \E p \in Procs : FindItem_Begin(p)
    \/ \E p \in Procs : FindItem_Segment(p)
    \/ \E p \in Procs : FindDirectoryOrCreate_Begin(p)
    \/ \E p \in Procs : FindDirectoryOrCreate_Segment(p)
    \/ \E p \in Procs : FindDirectoryOrCreate_Create(p)

Spec == Init /\ [][Next]_vars

\* Two callers of FindDirectoryOrCreate running at once.
InitConc ==
    /\ folders \in FolderLists(MaxConcFolders)
    /\ uploads = <<>>
    /\ undecryptable = {}
    /\ faults = 0
    /\ call = [p \in Procs |-> Idle]

InvokeConc ==
    \E p \in Procs, path \in Paths(MaxConcLen) :
        Invoke(p, "FindDirectoryOrCreate", path, FALSE)

NextConc ==
    \/ InvokeConc
    \/ \E p \in Procs : FindDirectoryOrCreate_Begin(p)
    \/ \E p \in Procs : FindDirectoryOrCreate_Segment(p)
    \/ \E p \in Procs : FindDirectoryOrCreate_Create(p)

SpecConc == InitConc /\ [][NextConc]_vars

-----------------------------------------------------------------------------
(* What the properties below talk about *)

Range(seq) == {seq[i] : i \in 1..Len(seq)}

SegmentsOf(path) == SelectSeq(path, LAMBDA s : s # "")

FilesNamed(uuid, name) == {u \in Range(uploads) : u.parent = uuid /\ u.name = name}

DirectoriesNamed(uuid, name) == {d \in Range(folders) : d.parent = uuid /\ d.name = name}

ListingDecrypts(uuid) ==
    \A e \in Range(uploads) \cup Range(folders) :
        e.parent = uuid => e.uuid \notin undecryptable

\* Segment i of path is followed by another non-empty segment.
NonFinal(path, i) == \E j \in (i + 1)..Len(path) : path[j] # ""

Resolutions == {"FindItem", "FindItemUUID"}

\* Call c of FindItem has returned, without an error, from the iteration over
\* segment c.segmentIdx, having listed c.currentUUID.
StoppedAtSegment(c) ==
    /\ c.pc = "done"
    /\ c.op = "FindItem"
    /\ c.ret.kind # "err"
    /\ c.nList > 0
    /\ c.segmentIdx \in 1..Len(c.path)

-----------------------------------------------------------------------------
(* C1 *)

\* C1: FindItem with requireDirectory=false, stopped at a non-final segment
\* that names a file and no directory of the directory reached so far, returns
\* not-found and never that file.
C1_FileOnNonFinalSegmentIsNotFound ==
    \A p \in Procs :
        LET c == call[p]
        IN (/\ StoppedAtSegment(c)
            /\ ~c.requireDirectory
            /\ NonFinal(c.path, c.segmentIdx)
            /\ FilesNamed(c.currentUUID, c.path[c.segmentIdx]) # {}
            /\ DirectoriesNamed(c.currentUUID, c.path[c.segmentIdx]) = {})
           => c.ret.kind = "notfound"

-----------------------------------------------------------------------------
(* C2 *)

\* C2: when FindItem reaches the final segment and the directory reached lists
\* both a file and a directory of exactly that name, requireDirectory=false
\* returns the file and requireDirectory=true the directory; with
\* requireDirectory=true no file is returned for any path or drive.
C2_FileWinsUnlessDirectoryRequired ==
    \A p \in Procs :
        LET c == call[p]
        IN /\ (c.pc = "done" /\ c.op \in Resolutions /\ c.requireDirectory)
              => /\ c.ret.kind # "file"
                 /\ c.ret.uuid \notin {u.uuid : u \in Range(uploads)}
           /\ (/\ StoppedAtSegment(c)
               /\ c.segmentIdx = Len(c.path)
               /\ FilesNamed(c.currentUUID, c.path[c.segmentIdx]) # {}
               /\ DirectoriesNamed(c.currentUUID, c.path[c.segmentIdx]) # {})
              => IF c.requireDirectory
                 THEN /\ c.ret.kind = "dir"
                      /\ \E d \in DirectoriesNamed(c.currentUUID, c.path[c.segmentIdx]) :
                            c.ret.uuid = d.uuid
                 ELSE /\ c.ret.kind = "file"
                      /\ \E u \in FilesNamed(c.currentUUID, c.path[c.segmentIdx]) :
                            c.ret.uuid = u.uuid

\* A directory below the root returned although a file of the same name lies
\* beside it.
C2_Witness ==
    \E p \in Procs :
        LET c == call[p]
        IN /\ StoppedAtSegment(c)
           /\ c.requireDirectory
           /\ c.segmentIdx = Len(c.path)
           /\ c.currentUUID # RootUUID
           /\ FilesNamed(c.currentUUID, c.path[c.segmentIdx]) # {}
           /\ c.ret.kind = "dir"

-----------------------------------------------------------------------------
(* C5 *)

\* C5: two resolutions of paths with the same non-empty segments (at least
\* one), differing only in leading, trailing or duplicate slashes, have the
\* same outcome unless a request of one of them failed.
C5_SlashesDoNotChangeTheOutcome ==
    (/\ call[1].pc = "done"
     /\ call[2].pc = "done"
     /\ call[1].op \in Resolutions
     /\ call[2].op = call[1].op
     /\ call[2].requireDirectory = call[1].requireDirectory
     /\ SegmentsOf(call[1].path) # <<>>
     /\ SegmentsOf(call[1].path) = SegmentsOf(call[2].path)
     /\ call[1].ret.err # "transport"
     /\ call[2].ret.err # "transport")
    => call[1].ret = call[2].ret

-----------------------------------------------------------------------------
(* C6 *)

\* C6: when FindItem with requireDirectory=false lists, for a non-final
\* segment, a directory holding both a file and a directory of that name, it
\* moves into the directory and goes on with the next segment.
C6_NonFinalSegmentPrefersDirectory ==
    [][\A p \in Procs :
          LET c == call[p]
              idx == NextSegment(c.path, c.segmentIdx)
          IN (/\ c.pc = "resolve"
              /\ ~c.requireDirectory
              /\ idx # 0
              /\ NonFinal(c.path, idx)
              /\ ListingDecrypts(c.currentUUID)
              /\ FilesNamed(c.currentUUID, c.path[idx]) # {}
              /\ DirectoriesNamed(c.currentUUID, c.path[idx]) # {}
              /\ call'[p] # c
              /\ call'[p].ret.err # "transport")
             => /\ call'[p].pc = "resolve"
                /\ call'[p].segmentIdx = idx + 1
                /\ \E d \in DirectoriesNamed(c.currentUUID, c.path[idx]) :
                      call'[p].currentUUID = d.uuid]_vars

-----------------------------------------------------------------------------
(* C7 *)

\* C7: FindItemUUID on a path without a non-empty segment lists no directory
\* and returns the root UUID GetUserBaseFolder gave (that request's own error
\* when it fails).
C7_EmptyPathIsRootWithoutListing ==
    \A p \in Procs :
        LET c == call[p]
        IN (c.op = "FindItemUUID" /\ SegmentsOf(c.path) = <<>>)
           => /\ c.nList = 0
              /\ c.pc = "done" => \/ c.ret = RetUUID(RootUUID)
                                  \/ c.ret = Err("transport")

\* "//" resolved to the root on a drive that has children.
C7_Witness ==
    \E p \in Procs :
        /\ call[p].op = "FindItemUUID"
        /\ Len(call[p].path) > 1
        /\ SegmentsOf(call[p].path) = <<>>
        /\ call[p].pc = "done"
        /\ call[p].ret = RetUUID(RootUUID)
        /\ DirectoriesNamed(RootUUID, "a") # {}

-----------------------------------------------------------------------------
(* Paths on the drive *)

IsFolder(u) == \E d \in Range(folders) : d.uuid = u

FolderOf(u) == CHOOSE d \in Range(folders) : d.uuid = u

\* The k-th ancestor of u (NoUUID above the root).
RECURSIVE Ancestor(_, _)
Ancestor(u, k) ==
    IF k = 0 THEN u
    ELSE IF ~IsFolder(u) THEN NoUUID
    ELSE Ancestor(FolderOf(u).parent, k - 1)

\* The directory for segment i of segs (0: the root) on the way down to uuid.
Node(segs, uuid, i) == Ancestor(uuid, Len(segs) - i)

\* uuid is a directory that lies at segs below the root.
LiesAt(segs, uuid) ==
    /\ Node(segs, uuid, 0) = RootUUID
    /\ \A i \in 1..Len(segs) :
          /\ IsFolder(Node(segs, uuid, i))
          /\ FolderOf(Node(segs, uuid, i)).name = segs[i]

Materialized(c) ==
    /\ c.pc = "done"
    /\ c.op = "FindDirectoryOrCreate"
    /\ c.ret.kind = "uuid"

-----------------------------------------------------------------------------
(* C3 *)

\* C3: a FindDirectoryOrCreate that ran alone and met no failure has created
\* one directory for each segment that had no directory of its name in the
\* directory reached before it and none for the others, each under the
\* directory of the previous segment, from left to right, and returns the
\* directory of the last segment.
C3_CreatesExactlyTheMissingSegments ==
    \A p \in Procs :
        LET c == call[p]
            segs == SegmentsOf(c.path)
            before == Range(folders) \ Range(c.created)
            missing == {i \in 1..Len(segs) :
                          ~\E d \in before : /\ d.parent = Node(segs, c.ret.uuid, i - 1)
                                             /\ d.name = segs[i]}
            nth(k) == CHOOSE i \in missing : Cardinality({j \in missing : j < i}) = k - 1
        IN Materialized(c)
           => /\ LiesAt(segs, c.ret.uuid)
              /\ Len(c.created) = Cardinality(missing)
              /\ \A k \in 1..Len(c.created) :
                    /\ c.created[k] = FolderOf(Node(segs, c.ret.uuid, nth(k)))
                    /\ c.created[k].parent = Node(segs, c.ret.uuid, nth(k) - 1)
                    /\ c.created[k].name = segs[nth(k)]
              /\ \A i \in (1..Len(segs)) \ missing :
                    FolderOf(Node(segs, c.ret.uuid, i)) \in before

\* Three directories created one under the other on a drive that had none.
C3_Witness ==
    \E p \in Procs :
        /\ Materialized(call[p])
        /\ Len(call[p].created) = 3
        /\ Len(folders) = 3
        /\ call[p].ret.uuid = call[p].created[3].uuid
        /\ call[p].created[3].parent = call[p].created[2].uuid
        /\ call[p].created[2].parent = call[p].created[1].uuid
        /\ call[p].created[1].parent = RootUUID

-----------------------------------------------------------------------------
(* C4 *)

-----------------------------------------------------------------------------
(* C8 *)

\* What ReadDirectory returns for every directory of the drive: an error and
\* nothing else when the request fails or one entry does not decrypt, every
\* child otherwise.
ReadDirectoryAllOrNothing ==
    \A u \in {RootUUID} \cup {d.uuid : d \in Range(folders)}, fail \in BOOLEAN :
        LET r == ReadDirectory(u, fail)
        IN IF fail \/ ~ListingDecrypts(u)
           THEN r.err # "nil" /\ r.files = <<>> /\ r.directories = <<>>
           ELSE /\ r.err = "nil"
                /\ Range(r.files) = {e \in Range(uploads) : e.parent = u}
                /\ Range(r.directories) = {e \in Range(folders) : e.parent = u}

\* C8: ReadDirectory returns a listing whole or not at all, and a FindItem or
\* FindDirectoryOrCreate walk whose listing fails (the request, or the
\* decryption of one entry) ends there with the error: no not-found, no match
\* from the entries that did decrypt, no directory created.
C8_ListingIsAllOrNothing ==
    [][/\ ReadDirectoryAllOrNothing
       /\ \A p \in Procs :
             LET c == call[p]
             IN (/\ c.pc \in {"resolve", "walk"}
                 /\ NextSegment(c.path, c.segmentIdx) # 0
                 /\ call'[p] # c
                 /\ ~ListingDecrypts(c.currentUUID) \/ faults' # faults)
                => /\ call'[p].pc = "done"
                   /\ call'[p].ret.kind = "err"
                   /\ call'[p].ret.err \in {"decrypt", "transport"}
                   /\ call'[p].created = c.created
                   /\ folders' = folders]_vars

\* A walk ended by a listing of which one entry does not decrypt and another,
\* named like the segment, does.
C8_Witness ==
    \E p \in Procs :
        LET c == call[p]
        IN /\ c.pc = "done"
           /\ c.ret.err = "decrypt"
           /\ c.nList >= 2
           /\ \E d \in DirectoriesNamed(c.currentUUID, c.path[c.segmentIdx]) :
                 d.uuid \notin undecryptable

-----------------------------------------------------------------------------
(* C9 *)

-----------------------------------------------------------------------------
(* C10 *)

\* C10: two FindDirectoryOrCreate calls running at once can both list a parent
\* before either creates and then both create, leaving two directories of one
\* name under one parent and returning different UUIDs for one path; a call
\* whose listing is still what the drive holds when it creates (as it is when
\* the calls run one after the other) adds no second directory of a name.
C10_DuplicateNeedsStaleListing ==
    [][\A p \in Procs :
          LET c == call[p]
          IN (/\ c.pc = "create"
              /\ call'[p] # c
              /\ c.directories = GetDirectoryContent(c.currentUUID).Folders)
             => /\ DirectoriesNamed(c.currentUUID, c.path[c.segmentIdx]) = {}
                /\ Cardinality({d \in Range(folders') :
                                   /\ d.parent = c.currentUUID
                                   /\ d.name = c.path[c.segmentIdx]}) = 1]_vars

\* Both calls returned, each with a directory of its own for the same path.
C10_Witness ==
    /\ Materialized(call[1])
    /\ Materialized(call[2])
    /\ call[1].path = call[2].path
    /\ call[1].ret # call[2].ret
    /\ \E e1 \in Range(call[1].created), e2 \in Range(call[2].created) :
          e1.parent = e2.parent /\ e1.name = e2.name /\ e1.uuid # e2.uuid

====
